---- MODULE Spec2Model ----
(***************************************************************************)
(* swift-ring-tool (swiftringtool.py): the two ring transforms             *)
(* ring_shift_power and ring_reset_partitions applied to a ring dict as    *)
(* unpickled by main(), and the relocation planner find_all_files walking  *)
(* a storage tree and printing mkdir/mv commands.                          *)
(*                                                                         *)
(* Python None is the empty sequence and a set value x is <<x>>.           *)
(* Python lists are 1-based sequences here: list index p is index p+1.     *)
(***************************************************************************)
EXTENDS Integers, Sequences, FiniteSets, TLC

\* ---------------------------------------------------------------- bounds
MaxInitPower == 1      \* largest part_power of a ring as loaded
MaxPower == 3          \* ring_shift_power is not called at this part_power
NumDevs == 2           \* slots in ring['devs']
MaxReplicas == 1       \* replicas in ring['_replica2part2dev']
MaxTick == 1           \* largest entry of ring['_last_part_moves']
MaxFiles == 2          \* files os.walk yields
MaxPart == 2           \* partitions ring.get_nodes answers with: 1..MaxPart

\* ------------------------------------------------------------- the ring
None == <<>>
Some(x) == <<x>>
IsSet(o) == o # None
Val(o) == o[1]

RECURSIVE Pow2(_)
Pow2(n) == IF n = 0 THEN 1 ELSE 2 * Pow2(n - 1)

SeqsOfLen(S, n) == [1..n -> S]

\* number of (replica, partition) pairs of assignment a that name device d
PartsOf(a, d) ==
    Cardinality({rp \in (1..Len(a)) \X (1..Len(a[1])) : a[rp[1]][rp[2]] = d})

\* the device slots of a ring: slot d is None (deleted) or a device dict
DevsFor(present, a) ==
    [d \in 1..NumDevs |->
        IF d \in present
        THEN Some([id |-> d - 1,
                   parts |-> IF IsSet(a) THEN PartsOf(Val(a), d - 1) ELSE 0])
        ELSE None]

\* ids of the devices in the slots `present`
Ids(present) == {d - 1 : d \in present}

\* the assignments a ring of n partitions over the devices ids can carry
Assignments(ids, n) ==
    {None} \cup
    (IF ids = {} THEN {}
     ELSE UNION {{Some(a) : a \in SeqsOfLen(SeqsOfLen(ids, n), r)}
                 : r \in 1..MaxReplicas})

\* a ring dict as pickle.load hands it to a transform
MakeRing(pw, present, a, m, e, c, v) ==
    [part_power |-> pw,
     parts |-> Pow2(pw),
     _replica2part2dev |-> a,
     devs |-> DevsFor(present, a),
     _last_part_moves |-> m,
     _last_part_moves_epoch |-> e,
     devs_changed |-> c,
     version |-> v]

VARIABLES
    ring,       \* the ring dict the transforms work on (mutated in place)
    before,     \* the ring as it was when the last transform was called
    origin,     \* the ring as loaded
    lastOp,     \* "load", "shift" or "reset": the call that returned last
    outcome,    \* "ok", or "error" when the call raised
    increases   \* ring_shift_power calls that returned since the load

ringVars == <<ring, before, origin, lastOp, outcome, increases>>

VARIABLES
    tree,       \* the files under path, in os.walk order
    options,    \* options.objects, options.containers, options.accounts
    idx,        \* position in tree of the next file of the walk
    output,     \* the lines printed so far
    status      \* "idle", "walking", "done", or "crashed" by an exception

planVars == <<tree, options, idx, output, status>>

vars == <<ring, before, origin, lastOp, outcome, increases,
          tree, options, idx, output, status>>

\* lines 48-51: every device of a replica appended twice, in order
RECURSIVE new_replica(_)
new_replica(replica) ==
    IF replica = <<>> THEN <<>>
    ELSE <<Head(replica), Head(replica)>> \o new_replica(Tail(replica))

\* lines 46-53
new_replica2part2dev(r2p2d) ==
    [r \in 1..Len(r2p2d) |-> new_replica(r2p2d[r])]

\* a slip of lines 55-57: device['parts'] += 2
shift_devs_adds(devs) ==
    [d \in 1..Len(devs) |->
        IF IsSet(devs[d])
        THEN Some([Val(devs[d]) EXCEPT !.parts = @ + 2])
        ELSE devs[d]]

\* lines 55-57: device['parts'] *= 2 for every device that is not None
shift_devs(devs) ==
    [d \in 1..Len(devs) |->
        IF IsSet(devs[d])
        THEN Some([Val(devs[d]) EXCEPT !.parts = 2 * @])
        ELSE devs[d]]

\* a slip of lines 59-63: line 62 missing, every entry appended once
last_part_moves_once(moves) == moves

\* lines 59-63: every entry appended twice, in order
RECURSIVE new_last_part_moves(_)
new_last_part_moves(moves) ==
    IF moves = <<>> THEN <<>>
    ELSE <<Head(moves), Head(moves)>> \o new_last_part_moves(Tail(moves))

\* lines 76-78: dev['parts'] = 0 for every device that is not None
reset_devs(devs) ==
    [d \in 1..Len(devs) |->
        IF IsSet(devs[d])
        THEN Some([Val(devs[d]) EXCEPT !.parts = 0])
        ELSE devs[d]]

\* a slip of lines 71-86: line 84 missing, the version is kept
reset_ring_keeps_version(r) ==
    [r EXCEPT !.devs = reset_devs(@),
              !._replica2part2dev = None,
              !._last_part_moves = None,
              !._last_part_moves_epoch = None,
              !.devs_changed = TRUE]

\* ring_reset_partitions, lines 71-86
reset_ring(r) ==
    [r EXCEPT !.devs = reset_devs(@),
              !._replica2part2dev = None,
              !._last_part_moves = None,
              !._last_part_moves_epoch = None,
              !.devs_changed = TRUE,
              !.version = 1]

\* no walk is running while a ring file is transformed (main, lines 195-207)
PlannerIdle ==
    /\ tree = <<>>
    /\ options = [objects |-> FALSE, containers |-> FALSE, accounts |-> FALSE]
    /\ idx = 1
    /\ output = <<>>
    /\ status = "idle"

InitRing ==
    /\ PlannerIdle
    /\ \E pw \in 0..MaxInitPower, present \in SUBSET (1..NumDevs) :
         \E a \in Assignments(Ids(present), Pow2(pw)),
            m \in {None} \cup {Some([p \in 1..Pow2(pw) |-> t]) : t \in 0..MaxTick},
            e \in {None, Some(0)},
            c \in BOOLEAN,
            v \in {1, 2} :
             ring = MakeRing(pw, present, a, m, e, c, v)
    /\ before = ring
    /\ origin = ring
    /\ lastOp = "load"
    /\ outcome = "ok"
    /\ increases = 0

\* ring_shift_power.  Iterating None raises TypeError: at line 47 when
\* _replica2part2dev is None, at line 60 when _last_part_moves is None; the
\* assignments made before the raise stay in the dict.
ShiftPower ==
    /\ outcome = "ok"
    /\ ring.part_power < MaxPower
    /\ before' = ring
    /\ lastOp' = "shift"
    /\ origin' = origin
    /\ UNCHANGED planVars
    /\ IF ~IsSet(ring._replica2part2dev)
       THEN /\ ring' = ring
            /\ outcome' = "error"
            /\ increases' = increases
       ELSE LET r1 == [ring EXCEPT
                        !._replica2part2dev = Some(new_replica2part2dev(Val(@))),
                        !.devs = shift_devs(@)]
            IN  IF ~IsSet(ring._last_part_moves)
                THEN /\ ring' = r1
                     /\ outcome' = "error"
                     /\ increases' = increases
                ELSE /\ ring' = [r1 EXCEPT
                                  !._last_part_moves = Some(new_last_part_moves(Val(@))),
                                  !.part_power = @ + 1,
                                  !.parts = @ * 2]
                     /\ outcome' = "ok"
                     /\ increases' = increases + 1

\* ring_reset_partitions
ResetPartitions ==
    /\ outcome = "ok"
    /\ before' = ring
    /\ lastOp' = "reset"
    /\ origin' = origin
    /\ ring' = reset_ring(ring)
    /\ outcome' = "ok"
    /\ increases' = increases
    /\ UNCHANGED planVars

NextRing == ShiftPower \/ ResetPartitions

Spec == InitRing /\ [][NextRing]_vars

\* ------------------------------------------- claims about the transforms

\* the table the last call was given had its assignment set
WasAssigned == IsSet(before._replica2part2dev)

\* C1: for every table with assignment set and partition count N, the
\* power increase yields partition count 2N and partition power + 1, and
\* for every replica r and original partition p in 0..N-1 the new
\* assignment holds the old device of p at 2p and at 2p+1.
C1_ShiftPowerDoublesTable ==
    (lastOp = "shift" /\ WasAssigned) =>
        /\ ring.parts = 2 * before.parts
        /\ ring.part_power = before.part_power + 1
        /\ IsSet(ring._replica2part2dev)
        /\ LET old == Val(before._replica2part2dev)
               new == Val(ring._replica2part2dev)
           IN  /\ Len(new) = Len(old)
               /\ \A r \in 1..Len(old) :
                    /\ Len(new[r]) = 2 * before.parts
                    /\ \A p \in 0..(before.parts - 1) :
                         /\ new[r][2 * p + 1] = old[r][p + 1]
                         /\ new[r][2 * p + 2] = old[r][p + 1]

\* C2: for every valid table (a device owns as many partitions as the
\* assignment gives it, none when the assignment is unset), after the power
\* increase every present device's partitionsOwned is exactly twice its
\* value before, and empty device slots are still empty.
C2_DevicePartsDoubled ==
    lastOp = "shift" =>
        /\ Len(ring.devs) = Len(before.devs)
        /\ \A d \in 1..Len(before.devs) :
             IF IsSet(before.devs[d])
             THEN /\ IsSet(ring.devs[d])
                  /\ Val(ring.devs[d]).parts = 2 * Val(before.devs[d]).parts
                  /\ Val(ring.devs[d]).id = Val(before.devs[d]).id
             ELSE ring.devs[d] = None

C2_Witness ==
    /\ lastOp = "shift"
    /\ WasAssigned
    /\ \E d \in 1..Len(before.devs) :
         IsSet(before.devs[d]) /\ Val(before.devs[d]).parts = 1
    /\ \E d \in 1..Len(before.devs) : before.devs[d] = None

\* C3: the reset of any table (assignment set or not, any version) leaves
\* every present device with partitionsOwned 0, the assignment, the
\* last-moved sequence and its epoch unset, devicesChanged true and version
\* 1, and keeps partition power, partition count and the device slots.
C3_ResetClearsAssignment ==
    lastOp = "reset" =>
        /\ ring._replica2part2dev = None
        /\ ring._last_part_moves = None
        /\ ring._last_part_moves_epoch = None
        /\ ring.devs_changed = TRUE
        /\ ring.version = 1
        /\ ring.part_power = before.part_power
        /\ ring.parts = before.parts
        /\ Len(ring.devs) = Len(before.devs)
        /\ \A d \in 1..Len(before.devs) :
             IF IsSet(before.devs[d])
             THEN /\ IsSet(ring.devs[d])
                  /\ Val(ring.devs[d]).parts = 0
                  /\ Val(ring.devs[d]).id = Val(before.devs[d]).id
             ELSE ring.devs[d] = None

C3_Witness ==
    /\ lastOp = "reset"
    /\ WasAssigned
    /\ before.version = 2
    /\ ~before.devs_changed
    /\ IsSet(before._last_part_moves)
    /\ \E d \in 1..Len(before.devs) :
         IsSet(before.devs[d]) /\ Val(before.devs[d]).parts > 0

\* C8: the power increase never partially applies: on a table whose
\* assignment is unset, and on one whose assignment is set but whose
\* last-moved sequence is unset, it ends in an error and every field of the
\* table is as it was before the call.
C8_ShiftPowerNeverPartial ==
    /\ (lastOp = "shift" /\ (~WasAssigned \/ ~IsSet(before._last_part_moves)))
          => outcome = "error"
    /\ (lastOp = "shift" /\ outcome = "error") => ring = before

\* a table that meets the structural invariants of a ring
ValidTable(t) ==
    /\ t.parts = Pow2(t.part_power)
    /\ IsSet(t._replica2part2dev) =>
          /\ \A r \in 1..Len(Val(t._replica2part2dev)) :
                Len(Val(t._replica2part2dev)[r]) = t.parts
          /\ IsSet(t._last_part_moves)
          /\ Len(Val(t._last_part_moves)) = t.parts

\* C10: starting from a valid table, after any sequence of successful
\* power increases and resets the partition count is 2^partitionPower, the
\* power is the loaded power plus the number of increases (so it never
\* went down) and the count the loaded count times 2^increases, and when
\* the assignment is set every replica sequence and the last-moved
\* sequence have exactly partitionCount entries.
C10_StructureKept ==
    (ValidTable(origin) /\ outcome = "ok") =>
        /\ ValidTable(ring)
        /\ ring.part_power = origin.part_power + increases
        /\ ring.part_power >= before.part_power
        /\ ring.parts = origin.parts * Pow2(increases)

C10_Witness ==
    /\ ValidTable(origin)
    /\ outcome = "ok"
    /\ increases = 2
    /\ lastOp = "shift"
    /\ IsSet(ring._replica2part2dev)
    /\ origin.parts = 2
    /\ ring.parts = 8
\* --------------------------------------------------------- the planner
\* A path is the sequence of its '/'-separated segments: root.split('/'),
\* '/'.join(parts).  No segment holds a '/'.

Kinds == {"objects", "containers", "accounts"}

\* the order of the three tests of a file, lines 121, 138, 160
KindOrder == <<"objects", "containers", "accounts">>

Digits == <<"0", "1", "2", "3", "4", "5", "6", "7", "8", "9">>

\* str(new_part), lines 129, 151, 172
RECURSIVE Str(_)
Str(n) == IF n < 10 THEN Digits[n + 1]
          ELSE Str(n \div 10) \o Digits[(n % 10) + 1]

\* the segments and file names that have `word` as a substring
Containing(word) ==
    CASE word = "quarantined" -> {"quarantined"}
      [] word = "containers" -> {"containers"}
      [] word = "accounts" -> {"accounts", "accounts_old"}
      [] word = "objects" -> {"objects"}
      [] OTHER -> {word}

\* `word in path`, a substring test on the joined path (lines 117, 140, 162)
HasWord(path, word) == \E i \in 1..Len(path) : path[i] \in Containing(word)

\* oldname.split('.')[-1], lines 122, 139, 161
Ext(name) ==
    CASE name = "a.data" -> "data"
      [] name = "b.ts" -> "ts"
      [] name = "c.db" -> "db"
      [] name = "d.txt" -> "txt"
      [] OTHER -> name

\* parts.index(word), lines 128, 150, 171: the first position of the
\* segment `word`, 0 when there is none and index raises ValueError
IndexOf(parts, word) ==
    IF \E i \in 1..Len(parts) : parts[i] = word
    THEN CHOOSE i \in 1..Len(parts) :
            parts[i] = word /\ \A j \in 1..(i - 1) : parts[j] # word
    ELSE 0

\* the directories and files of the storage trees walked
ObjectDir == <<"srv", "objects", "1", "h">>
ContainerDir == <<"srv", "containers", "1", "h">>
AccountDir == <<"srv", "accounts", "1", "h">>
QuarantineDir == <<"srv", "quarantined", "objects", "1">>
NestedDir == <<"srv", "accounts", "containers", "1">>
OldAccountDir == <<"srv", "accounts_old", "1">>
TmpDir == <<"srv", "tmp">>

FilePaths ==
    { <<ObjectDir, "a.data">>, <<ObjectDir, "b.ts">>, <<ObjectDir, "d.txt">>,
      <<ContainerDir, "c.db">>, <<AccountDir, "c.db">>,
      <<QuarantineDir, "a.data">>, <<NestedDir, "c.db">>,
      <<OldAccountDir, "c.db">>, <<TmpDir, "a.data">> }

\* os.path.join(root, filename), split at '/' (lines 119, 127, 149, 170)
oldname(f) == f.root \o <<f.name>>

\* the tests of lines 121-122, 138-140, 160-162 that do not read options
qualifies(f, kind) ==
    CASE kind = "objects" -> Ext(f.name) \in {"data", "ts"}
      [] kind = "containers" ->
            Ext(f.name) \in {"db"} /\ HasWord(oldname(f), "containers")
      [] kind = "accounts" ->
            Ext(f.name) \in {"db"} /\ HasWord(oldname(f), "accounts")

\* a slip of line 117: the test is missing
never_quarantined(f) == FALSE

\* line 117
in_quarantine(f) == HasWord(f.root, "quarantined")

\* a file of the tree: ident is the set of kinds whose identity lookup
\* (get_acc_cont_obj, ContainerBroker, AccountBroker) answers for it, part
\* the partition ring.get_nodes answers for the identity of each kind
Files ==
    UNION {
        LET f0 == [root |-> rn[1], name |-> rn[2]]
            lookedUp == {k \in Kinds : qualifies(f0, k)}
        IN  UNION {
              { [root |-> rn[1], name |-> rn[2], ident |-> id, part |-> pt] :
                  pt \in { q \in [Kinds -> 1..MaxPart] :
                             \A k \in Kinds \ id : q[k] = 1 } }
              : id \in SUBSET lookedUp }
        : rn \in FilePaths }

\* a slip of lines 121, 138, 160: the option is not tested
ignores_options(opts, f, kind) == qualifies(f, kind)

\* the whole test of lines 121-122, 138-140, 160-162
is_selected(opts, f, kind) == opts[kind] /\ qualifies(f, kind)

\* the identity printed in the comment line (lines 133, 155, 176)
identity(kind) ==
    CASE kind = "objects" -> <<"acc", "cont", "obj">>
      [] kind = "containers" -> <<"acc", "cont">>
      [] kind = "accounts" -> <<"acc">>

\* a slip of lines 129, 151, 172: part_pos + 2
newname_off_by_one(parts, kind, new_part) ==
    LET pos == IndexOf(parts, kind)
    IN  IF pos + 2 <= Len(parts)
        THEN [parts EXCEPT ![pos + 2] = Str(new_part)]
        ELSE parts

\* lines 127-130, 149-152, 170-173: oldname_parts after the assignment
newname(parts, kind, new_part) ==
    [parts EXCEPT ![IndexOf(parts, kind) + 1] = Str(new_part)]

\* lines 131, 153, 174: oldname_parts[:-1]
newdir(parts) == SubSeq(parts, 1, Len(parts) - 1)

Line(cmd, a, b) == [cmd |-> cmd, a |-> a, b |-> b]

\* the four prints of lines 133-136, 155-158, 176-179
block(f, kind) ==
    LET new == newname(oldname(f), kind, f.part[kind])
    IN  << Line("#", identity(kind), <<>>),
           Line("mkdir -p", newdir(new), <<>>),
           Line("mv", oldname(f), new),
           Line("", <<>>, <<>>) >>

\* one of the three branches for a file it is taken for: the identity
\* lookup raises when it has no answer, index raises ValueError when no
\* segment is the kind's directory; nothing is printed then
branch(f, kind) ==
    IF kind \notin f.ident \/ IndexOf(oldname(f), kind) = 0
    THEN [lines |-> <<>>, raised |-> TRUE]
    ELSE [lines |-> block(f, kind), raised |-> FALSE]

\* lines 119-179 for one file: the branches in order, up to the first raise
RECURSIVE branches(_, _, _)
branches(f, opts, kinds) ==
    IF kinds = <<>> THEN [lines |-> <<>>, raised |-> FALSE]
    ELSE IF is_selected(opts, f, Head(kinds))
         THEN LET b == branch(f, Head(kinds))
                  rest == branches(f, opts, Tail(kinds))
              IN  IF b.raised THEN b
                  ELSE [lines |-> b.lines \o rest.lines, raised |-> rest.raised]
         ELSE branches(f, opts, Tail(kinds))

\* no ring is transformed while the planner walks (main, lines 221-234)
RingIdle ==
    /\ ring = MakeRing(0, {}, None, None, None, FALSE, 1)
    /\ before = ring
    /\ origin = ring
    /\ lastOp = "load"
    /\ outcome = "ok"
    /\ increases = 0

\* find_all_files is called with at least one option set (lines 221-234)
InitPlan ==
    /\ RingIdle
    /\ \E n \in 1..MaxFiles : \E t \in [1..n -> Files] :
         /\ \A i, j \in 1..n : i # j => oldname(t[i]) # oldname(t[j])
         /\ tree = t
    /\ options \in { o \in [Kinds -> BOOLEAN] : \E k \in Kinds : o[k] }
    /\ idx = 1
    /\ output = <<>>
    /\ status = "walking"

\* what the walk is after the file at idx: over, or on to the next file
after_file == IF idx = Len(tree) THEN "done" ELSE "walking"

\* lines 116-117: a file whose root has "quarantined" in it is passed over
SkipQuarantined ==
    /\ status = "walking"
    /\ idx <= Len(tree)
    /\ in_quarantine(tree[idx])
    /\ idx' = idx + 1
    /\ status' = after_file
    /\ UNCHANGED <<tree, options, output>>
    /\ UNCHANGED ringVars

\* lines 118-179 for the file at idx; an exception ends the walk
VisitFile ==
    /\ status = "walking"
    /\ idx <= Len(tree)
    /\ ~in_quarantine(tree[idx])
    /\ LET r == branches(tree[idx], options, KindOrder)
       IN  /\ output' = output \o r.lines
           /\ idx' = IF r.raised THEN idx ELSE idx + 1
           /\ status' = IF r.raised THEN "crashed" ELSE after_file
    /\ UNCHANGED <<tree, options>>
    /\ UNCHANGED ringVars

NextPlan == SkipQuarantined \/ VisitFile

PlanSpec == InitPlan /\ [][NextPlan]_vars
\* --------------------------------------------- claims about the planner

NumBlocks == Len(output) \div 4

\* the planner printed a block for file f as an entity of this kind
Emitted(f, kind) ==
    \E j \in 1..NumBlocks :
        /\ output[4 * j - 3] = Line("#", identity(kind), <<>>)
        /\ output[4 * j - 1].cmd = "mv"
        /\ output[4 * j - 1].a = oldname(f)

\* the file of the tree at this path
FileAt(path) == CHOOSE f \in {tree[i] : i \in 1..Len(tree)} : oldname(f) = path

\* a segment of f's path is the kind's directory
HasKindDir(f, kind) == \E i \in 1..Len(oldname(f)) : oldname(f)[i] = kind

\* the segment right after the kind's directory: the partition f is in
CurrentPart(f, kind) == oldname(f)[IndexOf(oldname(f), kind) + 1]

\* f is an entity of this kind that is selected, outside quarantine, has
\* its identity recovered and sits under the kind's directory
Due(f, kind) ==
    /\ options[kind]
    /\ qualifies(f, kind)
    /\ ~HasWord(f.root, "quarantined")
    /\ kind \in f.ident
    /\ HasKindDir(f, kind)

\* C4: an entity whose recovered identifier resolves to the partition
\* number of the partition segment of its current path gets zero output
\* lines.
C4_NoOpEmitsNothing ==
    \A i \in 1..Len(tree) : \A kind \in Kinds :
        (/\ kind \in tree[i].ident
         /\ HasKindDir(tree[i], kind)
         /\ Str(tree[i].part[kind]) = CurrentPart(tree[i], kind))
        => ~Emitted(tree[i], kind)

\* C5: for every entity the walk has passed whose target partition differs
\* from the partition in its path, the output holds a block whose mv line
\* goes from the old path to a path that differs from it only in the
\* segment right after the kind's directory, which is the target partition
\* number, and whose mkdir -p line names the parent directory of that path.
C5_MoveReplacesPartition ==
    \A i \in 1..(idx - 1) : \A kind \in Kinds :
        (Due(tree[i], kind)
            /\ Str(tree[i].part[kind]) # CurrentPart(tree[i], kind))
        => \E j \in 1..NumBlocks :
             LET old == oldname(tree[i])
                 mkdir == output[4 * j - 2]
                 mv == output[4 * j - 1]
                 q == CHOOSE n \in 1..Len(old) :
                        old[n] = kind /\ \A m \in 1..(n - 1) : old[m] # kind
             IN  /\ output[4 * j - 3] = Line("#", identity(kind), <<>>)
                 /\ mv.cmd = "mv"
                 /\ mv.a = old
                 /\ Len(mv.b) = Len(old)
                 /\ mv.b[q + 1] = Str(tree[i].part[kind])
                 /\ \A n \in 1..Len(old) : n # q + 1 => mv.b[n] = old[n]
                 /\ mkdir.cmd = "mkdir -p"
                 /\ mkdir.a = SubSeq(mv.b, 1, Len(mv.b) - 1)
                 /\ output[4 * j] = Line("", <<>>, <<>>)

C5_Witness ==
    /\ status = "done"
    /\ \E i \in 1..(idx - 1) :
         /\ Due(tree[i], "objects")
         /\ tree[i].part["objects"] = 2
         /\ CurrentPart(tree[i], "objects") = "1"
    /\ Len(output) = 4

\* C6: whatever the tree and the selection, no file under a path segment
\* named "quarantined" is in any line of the output.
C6_QuarantineExcluded ==
    /\ \A j \in 1..Len(output) :
         /\ \A n \in 1..Len(output[j].a) : output[j].a[n] # "quarantined"
         /\ \A n \in 1..Len(output[j].b) : output[j].b[n] # "quarantined"
    /\ \A i \in 1..Len(tree) :
         (\E n \in 1..Len(tree[i].root) : tree[i].root[n] = "quarantined")
         => \A j \in 1..Len(output) :
              /\ output[j].a # oldname(tree[i])
              /\ output[j].b # oldname(tree[i])

C6_Witness ==
    /\ status = "done"
    /\ options["objects"]
    /\ output # <<>>
    /\ \E i \in 1..Len(tree) :
         /\ tree[i].root = QuarantineDir
         /\ "objects" \in tree[i].ident
         /\ tree[i].part["objects"] = 2

\* C7: an entity of a kind that is not selected never produces output:
\* every block is the block of a selected kind for a file of that kind,
\* and with only "accounts" selected every block is an account block and
\* none is for a .data or .ts file.
C7_KindIsolation ==
    /\ \A j \in 1..NumBlocks :
         \E kind \in Kinds :
            /\ output[4 * j - 3].a = identity(kind)
            /\ options[kind]
            /\ qualifies(FileAt(output[4 * j - 1].a), kind)
    /\ (options["accounts"] /\ ~options["objects"] /\ ~options["containers"])
         => \A j \in 1..NumBlocks :
              /\ output[4 * j - 3].a = identity("accounts")
              /\ Ext(FileAt(output[4 * j - 1].a).name) \notin {"data", "ts"}

C7_Witness ==
    /\ status = "done"
    /\ options["accounts"] /\ ~options["objects"] /\ ~options["containers"]
    /\ \E i \in 1..Len(tree) :
         /\ tree[i].root = ObjectDir
         /\ "objects" \in tree[i].ident
         /\ tree[i].part["objects"] = 2
    /\ \E i \in 1..Len(tree) :
         /\ tree[i].root = ContainerDir
         /\ "containers" \in tree[i].ident
         /\ tree[i].part["containers"] = 2
    /\ output = <<>>

\* the identity lookup of a selected kind has no answer for f
LookupFails(f) ==
    /\ ~HasWord(f.root, "quarantined")
    /\ \E kind \in Kinds :
         options[kind] /\ qualifies(f, kind) /\ kind \notin f.ident

\* every file a branch is taken for sits under its kind's directory
NoStrayFile ==
    \A i \in 1..Len(tree) : \A kind \in Kinds :
        (options[kind] /\ qualifies(tree[i], kind)) => HasKindDir(tree[i], kind)

\* C9: when identity recovery fails for one file the file is skipped and
\* the walk goes on: once the walk is over, every later file that is
\* selected and recoverable has the block it would have without the bad
\* file.
C9_BadFileSkipped ==
    (status \in {"done", "crashed"} /\ NoStrayFile) =>
        \A i, j \in 1..Len(tree) :
            (i < j /\ LookupFails(tree[i])) =>
                \A kind \in Kinds :
                    Due(tree[j], kind) => Emitted(tree[j], kind)
====
